---- MODULE Spec2Model ----
(***************************************************************************)
(* Model of gke-vpa-recommendations/metrics-exporter/main.py: namespace    *)
(* discovery, the per-namespace metric pipeline, the metric fetcher with   *)
(* its label-source classification, and the BigQuery row sink.             *)
(*                                                                         *)
(* Metric names are sequences of one-character strings so that Python's    *)
(* substring test ("hpa" in metric_name) is computed, not assumed.         *)
(***************************************************************************)
EXTENDS Integers, Sequences, FiniteSets, TLC

VARIABLES
    pc,                 \* position of the process (__main__ / run_pipeline)
    catalog,            \* config.MQL_QUERY keys, in iteration order
    backend,            \* what the monitoring backend holds: namespaces, series shapes
    monitor_namespaces, \* list returned by get_namespaces()
    nsIdx,              \* index of the namespace the driver loop is at
    mIdx,               \* index of the metric run_pipeline is at
    rows_to_insert,     \* local of run_pipeline
    resp,               \* response to the query just made, until the caller acts on it
    table,              \* rows held by the warehouse table config.TABLE_ID
    calls,              \* requests sent to the two backends, in order
    log,                \* lines written through logging
    clock,              \* what time.time() reads
    seconds,            \* module global of line 31
    nanos               \* module global of line 32

vars == <<pc, catalog, backend, monitor_namespaces, nsIdx, mIdx, rows_to_insert,
          resp, table, calls, log, clock, seconds, nanos>>

----------------------------------------------------------------------------
(* Bounds of the model *)

MaxResults == 2     \* longest result stream a list_time_series call yields
MaxTokens  == 3     \* longest metric name, in tokens, of the naming model
MaxPoints  == 2     \* most points of a series of the conversion model

----------------------------------------------------------------------------
(* Sequences and label bags *)

Range(f) == {f[k] : k \in DOMAIN f}

SeqsUpTo(S, n) == UNION {[1..k -> S] : k \in 0..n}

RECURSIVE Perms(_)
Perms(S) ==
    IF S = {} THEN {<<>>}
    ELSE UNION {{<<x>> \o p : p \in Perms(S \ {x})} : x \in S}

\* Python: sub in s, for strings
Contains(sub, s) ==
    \E i \in 1..(Len(s) - Len(sub) + 1) : SubSeq(s, i, i + Len(sub) - 1) = sub

\* Python: s.startswith(sub)
StartsWith(sub, s) ==
    Len(s) >= Len(sub) /\ SubSeq(s, 1, Len(sub)) = sub

LowerChar(c) ==
    CASE c = "H" -> "h"
      [] c = "P" -> "p"
      [] c = "A" -> "a"
      [] c = "V" -> "v"
      [] OTHER   -> c

\* Python: s.lower()
Lower(s) == [i \in 1..Len(s) |-> LowerChar(s[i])]

hpa == <<"h", "p", "a">>
vpa == <<"v", "p", "a">>

----------------------------------------------------------------------------
(* get_gke_metrics: classification of the metric name (lines 83-94) *)

IsHpa_prefix(metric_name) == StartsWith(hpa, metric_name)

IsHpa(metric_name) == Contains(hpa, metric_name)

IsVpa(metric_name) == Contains(vpa, metric_name)

Branch_vpaFirst(metric_name) ==
    IF IsVpa(metric_name) THEN "vpa"
    ELSE IF IsHpa(metric_name) THEN "hpa"
    ELSE "generic"

Branch(metric_name) ==
    IF IsHpa(metric_name) THEN "hpa"
    ELSE IF IsVpa(metric_name) THEN "vpa"
    ELSE "generic"

\* the (bag, key) each identity field is read from, per branch
FieldSource_hpaMixed(branch) ==
    CASE branch = "hpa" ->
            [controller_name |-> <<"metric_label", "targetref_name">>,
             controller_type |-> <<"label", "controller_kind">>,
             container_name  |-> <<"metric_label", "container_name">>]
      [] branch = "vpa" ->
            [controller_name |-> <<"label", "controller_name">>,
             controller_type |-> <<"label", "controller_kind">>,
             container_name  |-> <<"metric_label", "container_name">>]
      [] OTHER ->
            [controller_name |-> <<"metadata", "top_level_controller_name">>,
             controller_type |-> <<"metadata", "top_level_controller_type">>,
             container_name  |-> <<"label", "container_name">>]

FieldSource(branch) ==
    CASE branch = "hpa" ->
            [controller_name |-> <<"metric_label", "targetref_name">>,
             controller_type |-> <<"metric_label", "targetref_kind">>,
             container_name  |-> <<"metric_label", "container_name">>]
      [] branch = "vpa" ->
            [controller_name |-> <<"label", "controller_name">>,
             controller_type |-> <<"label", "controller_kind">>,
             container_name  |-> <<"metric_label", "container_name">>]
      [] OTHER ->
            [controller_name |-> <<"metadata", "top_level_controller_name">>,
             controller_type |-> <<"metadata", "top_level_controller_type">>,
             container_name  |-> <<"label", "container_name">>]

IdentityFields == {"controller_name", "controller_type", "container_name"}

RowLabelKeys == {"project_id", "location", "cluster_name", "namespace_name"}

\* result.resource.labels / result.metadata.system_labels.fields /
\* result.metric.labels of one series
Bag(result, bag) ==
    CASE bag = "label"        -> result.label
      [] bag = "metadata"     -> result.metadata
      [] OTHER                -> result.metric_label

\* a point converts (lines 108-112) unless its conversion raises
PointConverts(point) == point.valid

\* every subscript of lines 84-101 finds its key (no KeyError) and every
\* point of the series converts (lines 107-112)
Convertible(metric_name, result) ==
    /\ \A f \in IdentityFields :
          FieldSource(Branch(metric_name))[f][2]
              \in DOMAIN Bag(result, FieldSource(Branch(metric_name))[f][1])
    /\ RowLabelKeys \subseteq DOMAIN result.label
    /\ \A k \in 1..Len(result.points) : PointConverts(result.points[k])

\* strftime('%Y-%m-%d %H:%M:%S.%f') of a timestamp held in nanoseconds:
\* the rendering keeps microseconds
Strftime(t) == t \div 1000

\* float(i): floating-point values are held in tenths (15 is 1.5)
Float(i) == 10 * i

PointValue_doubleOnly(point) == point.double_value

\* point.value.double_value or float(point.value.int64_value)
PointValue(point) ==
    IF point.double_value # 0 THEN point.double_value ELSE Float(point.int64_value)

BuildPoints(points) ==
    [i \in 1..Len(points) |->
        [metric_timestamp |-> Strftime(points[i].start_time),
         metric_value     |-> PointValue(points[i])]]

\* the row of one series (lines 95-113)
BuildRow(metric_name, result) ==
    LET src == FieldSource(Branch(metric_name)) IN
    [run_date        |-> "run_date",
     metric_name     |-> metric_name,
     project_id      |-> result.label["project_id"],
     location        |-> result.label["location"],
     cluster_name    |-> result.label["cluster_name"],
     namespace_name  |-> result.label["namespace_name"],
     controller_name |-> Bag(result, src.controller_name[1])[src.controller_name[2]],
     controller_type |-> Bag(result, src.controller_type[1])[src.controller_type[2]],
     container_name  |-> Bag(result, src.container_name[1])[src.container_name[2]],
     points_array    |-> BuildPoints(result.points)]

----------------------------------------------------------------------------
(* The monitoring backend: series and the result stream of a query *)

Namespaces == {"billing", "web"}

\* points: start_time in nanoseconds, double_value in tenths, int64_value;
\* of value.double_value and value.int64_value the unset one reads 0
DoublePoint == [start_time |-> 1500, double_value |-> 15, int64_value |-> 0,
                valid |-> TRUE]

IntPoint == [start_time |-> 2999, double_value |-> 0, int64_value |-> 7,
             valid |-> TRUE]

\* a point whose conversion raises
BadPoint == [start_time |-> 4000, double_value |-> 25, int64_value |-> 0,
             valid |-> FALSE]

TwoPoints == <<DoublePoint, IntPoint>>

\* a shape: which labels a series carries, and its points
Shapes == {[labels |-> l, points |-> TwoPoints] : l \in {"full", "nolabel"}}

\* a series with every label present; the three bags hold different values
FullSeries(ns) ==
    [label        |-> [project_id      |-> "proj",
                       location        |-> "loc",
                       cluster_name    |-> "cluster",
                       namespace_name  |-> ns,
                       container_name  |-> "res_container",
                       controller_name |-> "res_controller",
                       controller_kind |-> "res_kind"],
     metadata     |-> [top_level_controller_name |-> "meta_controller",
                       top_level_controller_type |-> "meta_type"],
     metric_label |-> [targetref_name |-> "ml_target",
                       targetref_kind |-> "ml_kind",
                       container_name |-> "ml_container"],
     points       |-> TwoPoints]

\* a series whose resource labels lack project_id: label['project_id'] raises
NoLabelSeries(ns) ==
    [label        |-> [location        |-> "loc",
                       cluster_name    |-> "cluster",
                       namespace_name  |-> ns,
                       container_name  |-> "res_container",
                       controller_name |-> "res_controller",
                       controller_kind |-> "res_kind"],
     metadata     |-> [top_level_controller_name |-> "meta_controller",
                       top_level_controller_type |-> "meta_type"],
     metric_label |-> [targetref_name |-> "ml_target",
                       targetref_kind |-> "ml_kind",
                       container_name |-> "ml_container"],
     points       |-> TwoPoints]

Series(shape, ns) ==
    [(IF shape.labels = "full" THEN FullSeries(ns) ELSE NoLabelSeries(ns))
        EXCEPT !.points = shape.points]

\* a series of the discovery query, grouped by namespace_name
DiscoverySeries(ns) ==
    [label |-> [namespace_name |-> ns], metadata |-> <<>>,
     metric_label |-> <<>>, points |-> <<>>]

\* a discovery series without the namespace_name label
UnlabelledSeries ==
    [label |-> <<>>, metadata |-> <<>>, metric_label |-> <<>>, points |-> <<>>]

NoSeries == <<>>

SeriesItem(s) == [kind |-> "series", series |-> s]

\* an exception raised by the pager in place of the next series:
\* GoogleAPICallError ("api_error") or any other Exception ("error")
ErrorItems == {[kind |-> k, series |-> NoSeries] : k \in {"api_error", "error"}}

\* result streams: up to MaxResults items, an exception only as the last one
Streams(SeriesSet) ==
    LET items == {SeriesItem(s) : s \in SeriesSet} IN
    {st \in SeqsUpTo(items \cup ErrorItems, MaxResults) :
        \A i \in 1..(Len(st) - 1) : st[i].kind = "series"}

\* what client.list_time_series does: it raises (call # "ok"), or it returns
\* a pager over a result stream
Responses(SeriesSet) ==
    {[call |-> c, items |-> <<>>] : c \in {"api_error", "error"}}
    \cup {[call |-> "ok", items |-> st] : st \in Streams(SeriesSet)}

NoResp == [call |-> "none", items |-> <<>>]

----------------------------------------------------------------------------
(* get_gke_metrics (lines 67-119) *)

\* the for loop of lines 78-114 under the try of line 68
RECURSIVE IterateResults(_, _, _)
IterateResults(metric_name, items, rows) ==
    IF items = <<>> THEN [rows |-> rows, error |-> "none"]
    ELSE IF Head(items).kind # "series"
         THEN [rows |-> rows, error |-> Head(items).kind]
    ELSE IF ~Convertible(metric_name, Head(items).series)
         THEN [rows |-> rows, error |-> "error"]
    ELSE IterateResults(metric_name, Tail(items),
                        Append(rows, BuildRow(metric_name, Head(items).series)))

\* the points of a series up to its first point that does not convert
ConvertedPrefix(points) ==
    LET n == CHOOSE k \in 0..Len(points) :
                /\ \A i \in 1..k : PointConverts(points[i])
                /\ k < Len(points) => ~PointConverts(points[k + 1])
    IN  SubSeq(points, 1, n)

get_gke_metrics_partialRow(metric_name, r) ==
    LET res == IF r.call # "ok" THEN [rows |-> <<>>, error |-> r.call]
               ELSE IterateResults(metric_name, r.items, <<>>)
        n   == Len(res.rows)
    IN  IF /\ n < Len(r.items)
           /\ r.items[n + 1].kind = "series"
           /\ RowLabelKeys \subseteq DOMAIN r.items[n + 1].series.label
        THEN [rows  |-> Append(res.rows,
                          BuildRow(metric_name,
                             [r.items[n + 1].series EXCEPT
                                 !.points = ConvertedPrefix(@)])),
              error |-> res.error]
        ELSE res

get_gke_metrics_dropRows(metric_name, r) ==
    LET res == IF r.call # "ok" THEN [rows |-> <<>>, error |-> r.call]
               ELSE IterateResults(metric_name, r.items, <<>>)
    IN  IF res.error = "none" THEN res ELSE [rows |-> <<>>, error |-> res.error]

get_gke_metrics(metric_name, r) ==
    IF r.call # "ok" THEN [rows |-> <<>>, error |-> r.call]
    ELSE IterateResults(metric_name, r.items, <<>>)

\* the lines get_gke_metrics and get_namespaces log for a response
QueryLog(r, error, level) ==
    (IF r.call = "ok" THEN <<[level |-> "info", msg |-> "Building Row"]>> ELSE <<>>)
    \o (CASE error = "api_error" -> <<[level |-> level, msg |-> "Google API call error"]>>
          [] error = "error"     -> <<[level |-> level, msg |-> "Unexpected error"]>>
          [] OTHER               -> <<>>)

----------------------------------------------------------------------------
(* get_namespaces (lines 146-183) *)

\* the for loop of lines 174-176 under the try of line 164
RECURSIVE CollectNamespaces(_, _)
CollectNamespaces(items, namespaces) ==
    IF items = <<>> THEN [namespaces |-> namespaces, error |-> "none"]
    ELSE IF Head(items).kind # "series"
         THEN [namespaces |-> namespaces, error |-> Head(items).kind]
    ELSE IF "namespace_name" \notin DOMAIN Head(items).series.label
         THEN [namespaces |-> namespaces, error |-> "error"]
    ELSE CollectNamespaces(Tail(items),
             namespaces \cup {Head(items).series.label["namespace_name"]})

get_namespaces(r) ==
    IF r.call # "ok" THEN [namespaces |-> {}, error |-> r.call]
    ELSE CollectNamespaces(r.items, {})

\* the discovery query is reduced per namespace (line 161-162): its stream
\* is no longer than the backend has namespaces
DiscoveryResponses(nss) ==
    {r \in Responses({DiscoverySeries(ns) : ns \in nss} \cup {UnlabelledSeries}) :
        Len(r.items) <= Cardinality(nss)}

----------------------------------------------------------------------------
(* State of the process *)

Line(level, msg) == [level |-> level, msg |-> msg]

cpu == <<"c", "p", "u">>

\* config.MQL_QUERY: the catalogs the pipeline specification runs with
Catalogs == {<<cpu, hpa>>, <<vpa>>}

namespace == monitor_namespaces[nsIdx]

metric == catalog[mIdx]

\* the time at which the module is loaded (line 30)
StartTime == [seconds |-> 1000, nanos |-> 250]

\* the clock has moved on when a backend call returns
Later(t) == [t EXCEPT !.seconds = @ + 1]

\* query.window of the descriptor of a metric, in seconds
QueryWindow(metric_name) == IF metric_name = cpu THEN 300 ELSE 600

Interval_fresh(window) ==
    [end_time   |-> [seconds |-> clock.seconds, nanos |-> clock.nanos],
     start_time |-> [seconds |-> clock.seconds - window, nanos |-> clock.nanos]]

\* lines 48-58: the interval of a time-series query
Interval(window) ==
    [end_time   |-> [seconds |-> seconds, nanos |-> nanos],
     start_time |-> [seconds |-> seconds - window, nanos |-> nanos]]

InitWith(cats, nss, shapes) ==
    /\ pc = "start"
    /\ catalog \in cats
    /\ backend = [namespaces |-> nss, shapes |-> shapes]
    /\ monitor_namespaces = <<>>
    /\ nsIdx = 0
    /\ mIdx = 0
    /\ rows_to_insert = <<>>
    /\ resp = NoResp
    /\ table = <<>>
    /\ calls = <<>>
    /\ log = <<>>
    /\ clock = StartTime
    /\ seconds = StartTime.seconds
    /\ nanos = StartTime.nanos

Init == InitWith(Catalogs, Namespaces, Shapes)

----------------------------------------------------------------------------
(* __main__ (lines 186-193) *)

\* the namespace labels of the first series of a response, as a list
CollectList(r, n) ==
    LET m == CHOOSE k \in 0..Len(r.items) :
                /\ \A i \in 1..k : /\ r.items[i].kind = "series"
                                   /\ "namespace_name" \in DOMAIN r.items[i].series.label
                /\ \A j \in (k + 1)..Len(r.items) :
                      \E i \in 1..j : \/ r.items[i].kind # "series"
                                      \/ "namespace_name" \notin DOMAIN r.items[i].series.label
    IN  [i \in 1..m |-> r.items[i].series.label["namespace_name"]]

GetNamespaces_list ==
    /\ pc = "start"
    /\ \E r \in DiscoveryResponses(backend.namespaces) :
          LET res == get_namespaces(r) IN
          /\ resp' = r
          /\ monitor_namespaces' = CollectList(r, Cardinality(res.namespaces))
          /\ calls' = Append(calls, [op |-> "discover", error |-> res.error])
          /\ log' = log \o QueryLog(r, res.error, "error")
    /\ pc' = "main"
    /\ UNCHANGED <<seconds, nanos, catalog, backend, nsIdx, mIdx, rows_to_insert, table>>
    /\ clock' = Later(clock)

\* line 188: monitor_namespaces = get_namespaces(); list(set) has no fixed order
GetNamespaces ==
    /\ pc = "start"
    /\ \E r \in DiscoveryResponses(backend.namespaces) :
          LET res == get_namespaces(r) IN
          /\ resp' = r
          /\ \E order \in Perms(res.namespaces) : monitor_namespaces' = order
          /\ calls' = Append(calls, [op |-> "discover", error |-> res.error])
          /\ log' = log \o QueryLog(r, res.error, "error")
    /\ pc' = "main"
    /\ UNCHANGED <<seconds, nanos, catalog, backend, nsIdx, mIdx, rows_to_insert, table>>
    /\ clock' = Later(clock)

MainEmpty_silent ==
    /\ pc = "main"
    /\ ~(Len(monitor_namespaces) > 0)
    /\ pc' = "done"
    /\ resp' = NoResp
    /\ UNCHANGED <<seconds, nanos, catalog, backend, monitor_namespaces, nsIdx, mIdx,
                   rows_to_insert, table, calls, log>>
    /\ UNCHANGED clock

\* lines 189, 192-193: the list is empty
MainEmpty ==
    /\ pc = "main"
    /\ ~(Len(monitor_namespaces) > 0)
    /\ log' = Append(log, Line("error", "Monitored Namespace list is zero size, end Job"))
    /\ pc' = "done"
    /\ UNCHANGED <<seconds, nanos, catalog, backend, monitor_namespaces, nsIdx, mIdx,
                   rows_to_insert, table, calls>>
    /\ resp' = NoResp
    /\ UNCHANGED clock

\* lines 190-191: the next namespace, asyncio.run(run_pipeline(namespace))
MainNext ==
    /\ pc = "main"
    /\ Len(monitor_namespaces) > 0
    /\ nsIdx < Len(monitor_namespaces)
    /\ nsIdx' = nsIdx + 1
    /\ mIdx' = 0
    /\ rows_to_insert' = <<>>
    /\ calls' = Append(calls, [op |-> "run_pipeline",
                               namespace |-> monitor_namespaces[nsIdx + 1]])
    /\ pc' = "loop"
    /\ resp' = NoResp
    /\ UNCHANGED <<seconds, nanos, catalog, backend, monitor_namespaces, table, log>>
    /\ UNCHANGED clock

MainDone_hang ==
    /\ pc = "main"
    /\ Len(monitor_namespaces) > 0
    /\ nsIdx = Len(monitor_namespaces)
    /\ UNCHANGED vars

\* line 190: the for loop is exhausted, the script ends
MainDone ==
    /\ pc = "main"
    /\ Len(monitor_namespaces) > 0
    /\ nsIdx = Len(monitor_namespaces)
    /\ pc' = "done"
    /\ UNCHANGED <<seconds, nanos, catalog, backend, monitor_namespaces, nsIdx, mIdx,
                   rows_to_insert, resp, table, calls, log>>
    /\ UNCHANGED clock

----------------------------------------------------------------------------
(* run_pipeline (lines 135-143) and write_to_bigquery (lines 122-132) *)

Fetch_sharedRows ==
    /\ pc = "loop"
    /\ mIdx < Len(catalog)
    /\ mIdx' = mIdx + 1
    /\ \E r \in Responses({Series(sh, namespace) : sh \in backend.shapes}) :
          LET res == get_gke_metrics(catalog[mIdx + 1], r) IN
          /\ resp' = r
          /\ rows_to_insert' = rows_to_insert \o res.rows
          /\ calls' = Append(calls, [op |-> "list_time_series",
                                     namespace |-> namespace,
                                     metric |-> catalog[mIdx + 1],
                                     interval |-> Interval(QueryWindow(catalog[mIdx + 1])),
                                     rows |-> res.rows,
                                     error |-> res.error])
          /\ log' = log \o <<Line("info", "Retrieving")>>
                        \o QueryLog(r, res.error, "info")
    /\ pc' = "fetched"
    /\ UNCHANGED <<seconds, nanos, catalog, backend, monitor_namespaces, nsIdx, table>>
    /\ clock' = Later(clock)

Fetch_propagates ==
    /\ pc = "loop"
    /\ mIdx < Len(catalog)
    /\ mIdx' = mIdx + 1
    /\ \E r \in Responses({Series(sh, namespace) : sh \in backend.shapes}) :
          LET res == get_gke_metrics(catalog[mIdx + 1], r) IN
          /\ resp' = r
          /\ rows_to_insert' = res.rows
          /\ calls' = Append(calls, [op |-> "list_time_series",
                                     namespace |-> namespace,
                                     metric |-> catalog[mIdx + 1],
                                     interval |-> Interval(QueryWindow(catalog[mIdx + 1])),
                                     rows |-> res.rows,
                                     error |-> res.error])
          /\ log' = log \o <<Line("info", "Retrieving")>>
                        \o QueryLog(r, res.error, "info")
          /\ pc' = IF res.error = "none" THEN "fetched" ELSE "crashed"
    /\ UNCHANGED <<seconds, nanos, catalog, backend, monitor_namespaces, nsIdx, table>>
    /\ clock' = Later(clock)

\* lines 136-138: the next metric of the catalog is fetched
Fetch ==
    /\ pc = "loop"
    /\ mIdx < Len(catalog)
    /\ mIdx' = mIdx + 1
    /\ \E r \in Responses({Series(sh, namespace) : sh \in backend.shapes}) :
          LET res == get_gke_metrics(catalog[mIdx + 1], r) IN
          /\ resp' = r
          /\ rows_to_insert' = res.rows
          /\ calls' = Append(calls, [op |-> "list_time_series",
                                     namespace |-> namespace,
                                     metric |-> catalog[mIdx + 1],
                                     interval |-> Interval(QueryWindow(catalog[mIdx + 1])),
                                     rows |-> res.rows,
                                     error |-> res.error])
          /\ log' = log \o <<Line("info", "Retrieving")>>
                        \o QueryLog(r, res.error, "info")
    /\ pc' = "fetched"
    /\ UNCHANGED <<seconds, nanos, catalog, backend, monitor_namespaces, nsIdx, table>>
    /\ clock' = Later(clock)

WriteOk_unguarded ==
    /\ pc = "fetched"
    /\ table' = table \o rows_to_insert
    /\ calls' = Append(calls, [op |-> "insert_rows_json",
                               namespace |-> namespace, metric |-> metric,
                               rows |-> rows_to_insert, errors |-> FALSE])
    /\ log' = Append(log, Line("info", "Successfully wrote"))
    /\ pc' = "loop"
    /\ UNCHANGED <<seconds, nanos, catalog, backend, monitor_namespaces, nsIdx, mIdx,
                   rows_to_insert>>
    /\ resp' = NoResp
    /\ clock' = Later(clock)

\* lines 139-140, 124-127: the insert reports no error
WriteOk ==
    /\ pc = "fetched"
    /\ rows_to_insert # <<>>
    /\ table' = table \o rows_to_insert
    /\ calls' = Append(calls, [op |-> "insert_rows_json",
                               namespace |-> namespace, metric |-> metric,
                               rows |-> rows_to_insert, errors |-> FALSE])
    /\ log' = Append(log, Line("info", "Successfully wrote"))
    /\ pc' = "loop"
    /\ UNCHANGED <<seconds, nanos, catalog, backend, monitor_namespaces, nsIdx, mIdx,
                   rows_to_insert>>
    /\ resp' = NoResp
    /\ clock' = Later(clock)

WriteFail_retry ==
    /\ pc = "fetched"
    /\ rows_to_insert # <<>>
    /\ calls' = Append(calls, [op |-> "insert_rows_json",
                               namespace |-> namespace, metric |-> metric,
                               rows |-> rows_to_insert, errors |-> TRUE])
    /\ log' = Append(log, Line("error", "Encountered errors while inserting rows"))
    /\ pc' = "fetched"
    /\ UNCHANGED <<seconds, nanos, catalog, backend, monitor_namespaces, nsIdx, mIdx,
                   rows_to_insert, table>>
    /\ resp' = NoResp
    /\ clock' = Later(clock)

WriteFail_swallowed ==
    /\ pc = "fetched"
    /\ rows_to_insert # <<>>
    /\ calls' = Append(calls, [op |-> "insert_rows_json",
                               namespace |-> namespace, metric |-> metric,
                               rows |-> rows_to_insert, errors |-> TRUE])
    /\ log' = Append(log, Line("error", "Encountered errors while inserting rows"))
    /\ pc' = "loop"
    /\ UNCHANGED <<seconds, nanos, catalog, backend, monitor_namespaces, nsIdx, mIdx,
                   rows_to_insert, table>>
    /\ resp' = NoResp
    /\ clock' = Later(clock)

\* lines 139-140, 124, 128-132: the insert reports row errors; the Exception
\* leaves run_pipeline, asyncio.run and the for loop of line 190
WriteFail ==
    /\ pc = "fetched"
    /\ rows_to_insert # <<>>
    /\ calls' = Append(calls, [op |-> "insert_rows_json",
                               namespace |-> namespace, metric |-> metric,
                               rows |-> rows_to_insert, errors |-> TRUE])
    /\ log' = Append(log, Line("error", "Encountered errors while inserting rows"))
    /\ pc' = "crashed"
    /\ UNCHANGED <<seconds, nanos, catalog, backend, monitor_namespaces, nsIdx, mIdx,
                   rows_to_insert, table>>
    /\ resp' = NoResp
    /\ clock' = Later(clock)

\* lines 139, 141-142: nothing was fetched
Skip ==
    /\ pc = "fetched"
    /\ ~(rows_to_insert # <<>>)
    /\ log' = Append(log, Line("info", "unavailable. Skip"))
    /\ pc' = "loop"
    /\ UNCHANGED <<seconds, nanos, catalog, backend, monitor_namespaces, nsIdx, mIdx,
                   rows_to_insert, table, calls>>
    /\ resp' = NoResp
    /\ UNCHANGED clock

RunCompleted_early ==
    /\ pc = "loop"
    /\ log' = Append(log, Line("info", "Run Completed"))
    /\ pc' = "main"
    /\ UNCHANGED <<seconds, nanos, catalog, backend, monitor_namespaces, nsIdx, mIdx,
                   rows_to_insert, resp, table, calls>>
    /\ UNCHANGED clock

\* line 143: the catalog is exhausted
RunCompleted ==
    /\ pc = "loop"
    /\ mIdx = Len(catalog)
    /\ log' = Append(log, Line("info", "Run Completed"))
    /\ pc' = "main"
    /\ UNCHANGED <<seconds, nanos, catalog, backend, monitor_namespaces, nsIdx, mIdx,
                   rows_to_insert, resp, table, calls>>
    /\ UNCHANGED clock

Next ==
    \/ GetNamespaces
    \/ MainEmpty
    \/ MainNext
    \/ MainDone
    \/ Fetch
    \/ WriteOk
    \/ WriteFail
    \/ Skip
    \/ RunCompleted

Spec == Init /\ [][Next]_vars

\* every backend call returns or fails in finite time, and the interpreter
\* keeps running the script: a step that can be taken is taken
\* two metrics for one namespace, or one metric for two namespaces
InitFair ==
    \/ InitWith({<<cpu, hpa>>}, {"billing"}, Shapes)
    \/ InitWith({<<vpa>>}, Namespaces, Shapes)

FairSpec == InitFair /\ [][Next]_vars /\ WF_vars(Next)

----------------------------------------------------------------------------
(* Metric names of the naming specification: up to MaxTokens tokens *)

Tokens == {hpa, vpa, cpu, <<"H", "P", "A">>, <<"h", "p">>, <<"a">>}

RECURSIVE Concat(_)
Concat(ts) == IF ts = <<>> THEN <<>> ELSE Head(ts) \o Concat(Tail(ts))

MetricNames == {Concat(ts) : ts \in SeqsUpTo(Tokens, MaxTokens) \ {<<>>}}

InitNames ==
    InitWith({<<n>> : n \in MetricNames}, {"billing"},
             {[labels |-> "full", points |-> TwoPoints]})

SpecNames == InitNames /\ [][Next]_vars

----------------------------------------------------------------------------
(* Series of the conversion specification: up to MaxPoints points each *)

PointPool == {DoublePoint, IntPoint, BadPoint}

SeriesShapes ==
    {[labels |-> "full", points |-> ps] : ps \in SeqsUpTo(PointPool, MaxPoints)}
    \cup {[labels |-> "nolabel", points |-> TwoPoints]}

InitSeries == InitWith({<<cpu>>}, {"billing"}, SeriesShapes)

SpecSeries == InitSeries /\ [][Next]_vars

----------------------------------------------------------------------------
(* Vocabulary of the properties *)

Last(q) == q[Len(q)]

IsFetch(c) == c.op = "list_time_series"

IsInsert(c) == c.op = "insert_rows_json"

FailedInsert(c) == IsInsert(c) /\ c.errors

SameUnit(c, d) == c.namespace = d.namespace /\ c.metric = d.metric

CatalogIndex(m) == CHOOSE k \in 1..Len(catalog) : catalog[k] = m

IsLastMetric(m) == CatalogIndex(m) = Len(catalog)

\* after the call at position i, the pipeline goes on with the metric that
\* follows calls[i].metric; j is where its next request would be
Continues(i, j) ==
    IF j <= Len(calls)
    THEN IF IsLastMetric(calls[i].metric)
         THEN calls[j].op = "run_pipeline"
         ELSE /\ IsFetch(calls[j])
              /\ calls[j].namespace = calls[i].namespace
              /\ calls[j].metric = catalog[CatalogIndex(calls[i].metric) + 1]
    ELSE pc \in {"fetched", "loop", "main", "done"}

\* rows of the inserts that reported no error, in the order of the calls
RECURSIVE OkRows(_)
OkRows(cs) ==
    IF cs = <<>> THEN <<>>
    ELSE (IF IsInsert(Head(cs)) /\ ~Head(cs).errors THEN Head(cs).rows ELSE <<>>)
         \o OkRows(Tail(cs))

\* the rows of the series that precede the first failure of a result stream
Accumulated(metric_name, items) ==
    LET good == {n \in 0..Len(items) :
                    \A i \in 1..n : /\ items[i].kind = "series"
                                    /\ Convertible(metric_name, items[i].series)}
        n == CHOOSE k \in good : \A m \in good : m <= k
    IN  [i \in 1..n |-> BuildRow(metric_name, items[i].series)]

HasHpa(name) ==
    \E i \in 1..Len(name) :
        i + 2 <= Len(name) /\ name[i] = "h" /\ name[i + 1] = "p" /\ name[i + 2] = "a"

HasVpa(name) ==
    \E i \in 1..Len(name) :
        i + 2 <= Len(name) /\ name[i] = "v" /\ name[i + 1] = "p" /\ name[i + 2] = "a"

BagNames == {"label", "metadata", "metric_label"}

BagOf(s, b) ==
    IF b = "label" THEN s.label
    ELSE IF b = "metadata" THEN s.metadata ELSE s.metric_label

\* v is the value of key in bag b of series s, and no other bag of s holds it
OnlyFrom(v, s, b, key) ==
    /\ key \in DOMAIN BagOf(s, b)
    /\ v = BagOf(s, b)[key]
    /\ \A o \in BagNames \ {b} : v \notin Range(BagOf(s, o))

HpaFields(row, s) ==
    /\ OnlyFrom(row.controller_name, s, "metric_label", "targetref_name")
    /\ OnlyFrom(row.controller_type, s, "metric_label", "targetref_kind")
    /\ OnlyFrom(row.container_name, s, "metric_label", "container_name")

VpaFields(row, s) ==
    /\ OnlyFrom(row.controller_name, s, "label", "controller_name")
    /\ OnlyFrom(row.controller_type, s, "label", "controller_kind")
    /\ OnlyFrom(row.container_name, s, "metric_label", "container_name")

GenericFields(row, s) ==
    /\ OnlyFrom(row.controller_name, s, "metadata", "top_level_controller_name")
    /\ OnlyFrom(row.controller_type, s, "metadata", "top_level_controller_type")
    /\ OnlyFrom(row.container_name, s, "label", "container_name")

\* in a state right after a fetch, row i was built from the i-th series
FetchedRows == IF pc = "fetched" THEN 1..Len(rows_to_insert) ELSE {}

SeriesOf(i) == resp.items[i].series

----------------------------------------------------------------------------
(* C1 - as claimed: once an insert has reported errors, every discovered   *)
(* namespace is still started by the driver, and every namespace other     *)
(* than the failing one has each metric of the catalog fetched.  The code  *)
(* lets the Exception leave the for loop of line 190, so this fails.       *)
C1_OtherNamespacesStillRun ==
    (pc \in {"done", "crashed"} /\ \E i \in 1..Len(calls) : FailedInsert(calls[i]))
    => \A n \in Range(monitor_namespaces) :
          /\ \E j \in 1..Len(calls) :
                calls[j].op = "run_pipeline" /\ calls[j].namespace = n
          /\ (\A i \in 1..Len(calls) :
                  FailedInsert(calls[i]) => calls[i].namespace # n)
             => \A k \in 1..Len(catalog) : \E j \in 1..Len(calls) :
                   /\ IsFetch(calls[j])
                   /\ calls[j].namespace = n
                   /\ calls[j].metric = catalog[k]

(* C2 - after an insert for a namespace reported errors, no later request  *)
(* (fetch or insert) is made for that namespace, and the table holds       *)
(* exactly the rows of the inserts that reported no error, in call order:  *)
(* the batches committed before the failure are still there.               *)
C2_AbortKeepsCommitted ==
    /\ table = OkRows(calls)
    /\ \A i \in 1..Len(calls) :
          FailedInsert(calls[i]) =>
             \A j \in (i + 1)..Len(calls) :
                ~(/\ calls[j].op \in {"list_time_series", "insert_rows_json"}
                  /\ calls[j].namespace = calls[i].namespace)

C2_Witness ==
    /\ pc = "crashed"
    /\ mIdx = 2
    /\ FailedInsert(Last(calls))
    /\ table # <<>>

(* C3 - no insert is ever made with an empty batch, and a fetch that       *)
(* returned no row is followed directly by the fetch of the next metric    *)
(* of the catalog (or, for the last metric, by the end of the run).        *)
C3_EmptyFetchSkipsSink ==
    \A i \in 1..Len(calls) :
       /\ IsInsert(calls[i]) => calls[i].rows # <<>>
       /\ (IsFetch(calls[i]) /\ calls[i].rows = <<>>) => Continues(i, i + 1)

C3_Witness ==
    \E i \in 1..(Len(calls) - 1) :
       /\ IsFetch(calls[i])
       /\ calls[i].rows = <<>>
       /\ calls[i].error = "none"
       /\ IsFetch(calls[i + 1])

(* C4 - right after a fetch, whatever the backend did, run_pipeline holds  *)
(* the rows of the series that came before the first failure, and the      *)
(* process only ever ends abnormally on an insert that reported errors,    *)
(* never on a fetch.                                                       *)
C4_FetchReturnsAccumulated ==
    /\ pc = "fetched" =>
          /\ rows_to_insert = Accumulated(metric, resp.items)
          /\ IsFetch(Last(calls))
          /\ Last(calls).rows = rows_to_insert
    /\ pc = "crashed" => FailedInsert(Last(calls))

C4_Witness ==
    /\ pc = "fetched"
    /\ Len(resp.items) >= 2
    /\ Last(resp.items).kind # "series"
    /\ rows_to_insert # <<>>

(* C5 - as claimed: whenever discovery met an error, the namespace list    *)
(* it returned is empty.  The code returns the namespaces collected        *)
(* before the error (line 183), so this fails.                             *)
C5_DiscoveryErrorGivesEmptySet ==
    (pc # "start" /\ calls[1].error # "none") => monitor_namespaces = <<>>

(* C6 - as claimed: no row of a metric whose fetch met an error is in the  *)
(* warehouse table.                                                        *)
C6_FetchErrorInsertsNothing ==
    \A i \in 1..Len(calls) :
       (IsFetch(calls[i]) /\ calls[i].error # "none") =>
          \A k \in 1..Len(table) :
             ~(/\ table[k].metric_name = calls[i].metric
               /\ table[k].namespace_name = calls[i].namespace)

(* C6 - amended: a fetch that met an error counts for the rows accumulated *)
(* before the error.  With none, no insert is made for the metric and the  *)
(* next metric follows; otherwise exactly those rows go to one insert, and *)
(* the next metric follows unless that insert reports errors.              *)
C6_FetchErrorKeepsAccumulated ==
    \A i \in 1..Len(calls) :
       (IsFetch(calls[i]) /\ calls[i].error # "none") =>
          IF calls[i].rows = <<>>
          THEN /\ \A j \in 1..Len(calls) :
                     ~(IsInsert(calls[j]) /\ SameUnit(calls[j], calls[i]))
               /\ Continues(i, i + 1)
          ELSE \/ i = Len(calls) /\ pc = "fetched"
               \/ /\ i < Len(calls)
                  /\ IsInsert(calls[i + 1])
                  /\ SameUnit(calls[i + 1], calls[i])
                  /\ calls[i + 1].rows = calls[i].rows
                  /\ (calls[i + 1].errors \/ Continues(i, i + 2))

C6_Witness ==
    \E i \in 1..(Len(calls) - 2) :
       /\ IsFetch(calls[i])
       /\ calls[i].error # "none"
       /\ calls[i].rows # <<>>
       /\ IsInsert(calls[i + 1])
       /\ ~calls[i + 1].errors
       /\ IsFetch(calls[i + 2])
       /\ table # <<>>

(* C7 - when discovery returned an empty list, the only request ever made  *)
(* is the discovery query: run_pipeline is not started, nothing is fetched *)
(* or inserted, and the process ends normally with the error line logged.  *)
C7_EmptyDiscoveryDoesNothing ==
    (pc # "start" /\ monitor_namespaces = <<>>) =>
       /\ Len(calls) = 1
       /\ calls[1].op = "discover"
       /\ table = <<>>
       /\ pc \in {"main", "done"}
       /\ pc = "done" =>
             /\ log # <<>>
             /\ Last(log) = Line("error", "Monitored Namespace list is zero size, end Job")

C7_Witness ==
    /\ pc = "done"
    /\ monitor_namespaces = <<>>
    /\ calls[1].error = "none"

(* C8 - as claimed: every row of a metric whose name contains "hpa" in     *)
(* any letter case has its three identity fields from the metric labels.   *)
C8_HpaAnyCase ==
    \A i \in FetchedRows :
       HasHpa(Lower(metric)) => HpaFields(rows_to_insert[i], SeriesOf(i))

(* C8 - amended: every row of a metric whose name contains the lower-case  *)
(* substring "hpa", at any position, has controller_name, controller_type  *)
(* and container_name from the metric labels targetref_name,               *)
(* targetref_kind and container_name, and from no other bag.               *)
C8_HpaLowerCase ==
    \A i \in FetchedRows :
       HasHpa(metric) => HpaFields(rows_to_insert[i], SeriesOf(i))

C8_Witness ==
    /\ FetchedRows # {}
    /\ HasHpa(metric)
    /\ SubSeq(metric, 1, 3) # hpa

(* C9 - as claimed: the three identity fields of every row come from one   *)
(* and the same label bag of the series.                                   *)
C9_OneBagPerRow ==
    \A i \in FetchedRows :
       \E b \in BagNames :
          /\ rows_to_insert[i].controller_name \in Range(BagOf(SeriesOf(i), b))
          /\ rows_to_insert[i].controller_type \in Range(BagOf(SeriesOf(i), b))
          /\ rows_to_insert[i].container_name \in Range(BagOf(SeriesOf(i), b))

(* C9 - amended: controller_name and controller_type of every row come     *)
(* from one and the same bag; container_name comes from that bag too       *)
(* exactly when the metric name contains "hpa", and otherwise from         *)
(* another bag (metric labels or resource labels).                         *)
C9_ControllerPairOneBag ==
    \A i \in FetchedRows :
       /\ \E b \in BagNames :
             /\ rows_to_insert[i].controller_name \in Range(BagOf(SeriesOf(i), b))
             /\ rows_to_insert[i].controller_type \in Range(BagOf(SeriesOf(i), b))
             /\ rows_to_insert[i].container_name \in Range(BagOf(SeriesOf(i), b))
                    <=> HasHpa(metric)
       /\ rows_to_insert[i].container_name
             \in Range(SeriesOf(i).metric_label) \cup Range(SeriesOf(i).label)

C9_Witness ==
    /\ FetchedRows # {}
    /\ HasVpa(metric)
    /\ ~HasHpa(metric)

(* C10 - every row follows exactly one of the three branches: the hpa      *)
(* branch when the name contains "hpa" (also when it contains "vpa" too),  *)
(* the vpa branch when it contains "vpa" and not "hpa", the generic        *)
(* branch otherwise.                                                        *)
C10_OrderedExclusive ==
    \A i \in FetchedRows :
       LET row == rows_to_insert[i]
           s   == SeriesOf(i)
           applied == {b \in {"hpa", "vpa", "generic"} :
                          CASE b = "hpa" -> HpaFields(row, s)
                            [] b = "vpa" -> VpaFields(row, s)
                            [] OTHER     -> GenericFields(row, s)}
       IN  /\ Cardinality(applied) = 1
           /\ HasHpa(metric) => applied = {"hpa"}
           /\ (~HasHpa(metric) /\ HasVpa(metric)) => applied = {"vpa"}
           /\ (~HasHpa(metric) /\ ~HasVpa(metric)) => applied = {"generic"}

C10_Witness ==
    /\ FetchedRows # {}
    /\ HasHpa(metric)
    /\ SubSeq(metric, 1, 3) = vpa

----------------------------------------------------------------------------
(* C11 - every row built from a series with N points has N entries in      *)
(* points_array, the k-th with the k-th point's start time (rendered to    *)
(* the microsecond) and with the point's double value when that is not     *)
(* zero, else its integer value as a floating-point number.                *)
C11_PointsRoundTrip ==
    \A i \in FetchedRows :
       LET pts == SeriesOf(i).points
           arr == rows_to_insert[i].points_array
       IN  /\ Len(arr) = Len(pts)
           /\ \A k \in 1..Len(pts) :
                 /\ arr[k].metric_timestamp = pts[k].start_time \div 1000
                 /\ pts[k].double_value # 0 =>
                       arr[k].metric_value = pts[k].double_value
                 /\ pts[k].double_value = 0 =>
                       arr[k].metric_value = 10 * pts[k].int64_value

C11_Witness ==
    /\ FetchedRows # {}
    /\ \E i \in FetchedRows :
          /\ Len(SeriesOf(i).points) = 2
          /\ SeriesOf(i).points[1].double_value = 0
          /\ SeriesOf(i).points[1].int64_value # 0
          /\ SeriesOf(i).points[2].double_value # 0

----------------------------------------------------------------------------
(* C12 - every time-series query of the run asks for the interval that     *)
(* ends at the time captured when the module was loaded and starts the     *)
(* descriptor's window before it, however far the clock has moved on; the  *)
(* captured time never changes.                                            *)
C12_SameEndTime ==
    /\ seconds = StartTime.seconds
    /\ nanos = StartTime.nanos
    /\ \A i \in 1..Len(calls) :
          IsFetch(calls[i]) =>
             /\ calls[i].interval.end_time = StartTime
             /\ calls[i].interval.start_time =
                   [seconds |-> StartTime.seconds - QueryWindow(calls[i].metric),
                    nanos   |-> StartTime.nanos]

C12_Witness ==
    /\ clock.seconds > StartTime.seconds + 3
    /\ \E i, j \in 1..Len(calls) :
          /\ i < j
          /\ IsFetch(calls[i])
          /\ IsFetch(calls[j])
          /\ calls[i].namespace # calls[j].namespace

(* C13 - the list of discovered namespaces has no duplicates, and          *)
(* run_pipeline is started at most once for any namespace name.            *)
C13_NamespacesOnce ==
    /\ \A i, j \in 1..Len(monitor_namespaces) :
          i # j => monitor_namespaces[i] # monitor_namespaces[j]
    /\ \A i, j \in 1..Len(calls) :
          (i # j /\ calls[i].op = "run_pipeline" /\ calls[j].op = "run_pipeline")
             => calls[i].namespace # calls[j].namespace

C13_Witness ==
    /\ pc = "main"
    /\ resp.call = "ok"
    /\ Len(resp.items) = 2
    /\ resp.items[1].kind = "series"
    /\ resp.items[1] = resp.items[2]
    /\ Len(monitor_namespaces) = 1

(* C14 - at most one insert is made for a (namespace, metric) pair, it     *)
(* carries as many rows as the fetch returned, and an insert that          *)
(* reported errors is the last request of the run: it is not retried.      *)
C14_OneInsertPerUnit ==
    \A i \in 1..Len(calls) :
       IsInsert(calls[i]) =>
          /\ \A j \in 1..Len(calls) :
                (j # i /\ IsInsert(calls[j])) => ~SameUnit(calls[i], calls[j])
          /\ \E j \in 1..Len(calls) :
                /\ IsFetch(calls[j])
                /\ SameUnit(calls[i], calls[j])
                /\ Len(calls[j].rows) = Len(calls[i].rows)
          /\ calls[i].errors => i = Len(calls)

C14_Witness ==
    /\ nsIdx = 2
    /\ FailedInsert(Last(calls))
    /\ \E i \in 1..(Len(calls) - 1) : IsInsert(calls[i])

RunCompletedLines ==
    Cardinality({i \in 1..Len(log) : log[i].msg = "Run Completed"})

\* every metric of the catalog was processed for namespace n: fetched, and
\* then skipped or inserted without error, in catalog order
FullRun(n) ==
    /\ \A k \in 1..Len(catalog) :
          \E i \in 1..Len(calls) :
             /\ IsFetch(calls[i])
             /\ calls[i].namespace = n
             /\ calls[i].metric = catalog[k]
             /\ \/ calls[i].rows = <<>>
                \/ /\ i < Len(calls)
                   /\ IsInsert(calls[i + 1])
                   /\ ~calls[i + 1].errors
    /\ \A i, j \in 1..Len(calls) :
          (i < j /\ IsFetch(calls[i]) /\ IsFetch(calls[j])
             /\ calls[i].namespace = n /\ calls[j].namespace = n)
          => CatalogIndex(calls[i].metric) < CatalogIndex(calls[j].metric)
    /\ \A i \in 1..Len(calls) : FailedInsert(calls[i]) => calls[i].namespace # n

(* C15 - the k-th "Run Completed" line is logged for the k-th namespace    *)
(* of the driver, and only once the whole catalog was processed for it in  *)
(* order without an insert error; a run whose insert reported errors logs  *)
(* none.                                                                   *)
C15_RunCompletedAfterAll ==
    /\ RunCompletedLines <= Len(monitor_namespaces)
    /\ \A k \in 1..RunCompletedLines : FullRun(monitor_namespaces[k])
    /\ pc = "crashed" => RunCompletedLines = nsIdx - 1

C15_Witness ==
    /\ RunCompletedLines = 2
    /\ table # <<>>
    /\ \E i \in 1..Len(calls) : IsFetch(calls[i]) /\ calls[i].rows = <<>>

(* C17 - every insert carries exactly the rows the request just before     *)
(* it, the fetch of the same metric for the same namespace, returned; all  *)
(* its rows are of that metric and namespace, and no two inserts share a   *)
(* row.                                                                    *)
C17_BatchIsLastFetch ==
    \A i \in 1..Len(calls) :
       IsInsert(calls[i]) =>
          /\ i > 1
          /\ IsFetch(calls[i - 1])
          /\ SameUnit(calls[i], calls[i - 1])
          /\ calls[i].rows = calls[i - 1].rows
          /\ \A k \in 1..Len(calls[i].rows) :
                /\ calls[i].rows[k].metric_name = calls[i].metric
                /\ calls[i].rows[k].namespace_name = calls[i].namespace
          /\ \A j \in 1..(i - 1) :
                IsInsert(calls[j]) =>
                   Range(calls[i].rows) \cap Range(calls[j].rows) = {}

C17_Witness ==
    \E i, j \in 1..Len(calls) :
       /\ i < j
       /\ IsInsert(calls[i])
       /\ IsInsert(calls[j])
       /\ calls[i].metric = calls[j].metric
       /\ calls[i].namespace # calls[j].namespace

----------------------------------------------------------------------------
RowFields ==
    {"run_date", "metric_name", "project_id", "location", "cluster_name",
     "namespace_name", "controller_name", "controller_type", "container_name",
     "points_array"}

\* a series lacks a label the row needs, or one of its points fails
FailsConversion(s) ==
    \/ ~(RowLabelKeys \subseteq DOMAIN s.label)
    \/ \E k \in 1..Len(s.points) : ~s.points[k].valid

(* C16 - every row a fetch returns has all its fields and one entry per    *)
(* point of its series; the first series whose conversion fails gets no    *)
(* row, nor does any after it, and the rows of the series before it are    *)
(* returned as converted; every row of the table is the whole conversion   *)
(* of a series of the backend.                                             *)
C16_RowsComplete ==
    /\ \A i \in FetchedRows :
          /\ DOMAIN rows_to_insert[i] = RowFields
          /\ ~FailsConversion(SeriesOf(i))
          /\ Len(rows_to_insert[i].points_array) = Len(SeriesOf(i).points)
          /\ rows_to_insert[i] = BuildRow(metric, SeriesOf(i))
    /\ pc = "fetched" =>
          /\ Len(rows_to_insert) <= Len(resp.items)
          /\ \A k \in 1..Len(resp.items) :
                (resp.items[k].kind = "series" /\ FailsConversion(resp.items[k].series))
                   => Len(rows_to_insert) < k
    /\ \A k \in 1..Len(table) :
          \E sh \in backend.shapes :
             /\ ~FailsConversion(Series(sh, table[k].namespace_name))
             /\ table[k] = BuildRow(table[k].metric_name,
                                    Series(sh, table[k].namespace_name))

C16_Witness ==
    /\ pc = "fetched"
    /\ Len(rows_to_insert) = 1
    /\ Len(resp.items) = 2
    /\ resp.items[2].kind = "series"
    /\ resp.items[2].series.points = <<DoublePoint, BadPoint>>

----------------------------------------------------------------------------
\* the process has ended: right after an empty discovery, after the run of
\* the last namespace, or on the first insert that reported errors
Ended ==
    \/ /\ pc = "done"
       /\ monitor_namespaces = <<>>
       /\ Len(calls) = 1
    \/ /\ pc = "done"
       /\ monitor_namespaces # <<>>
       /\ nsIdx = Len(monitor_namespaces)
       /\ RunCompletedLines = Len(monitor_namespaces)
    \/ /\ pc = "crashed"
       /\ FailedInsert(Last(calls))
       /\ \A i \in 1..(Len(calls) - 1) : ~FailedInsert(calls[i])

(* C18 - when every backend call returns or fails, the process reaches     *)
(* one of its three ends and stays there.                                  *)
C18_Terminates == <>[]Ended

C18_Witness ==
    /\ Ended
    /\ pc = "done"
    /\ nsIdx = 2
    /\ table # <<>>
====
